---- MODULE Spec2Model ----
(***************************************************************************)
(* Model of the Enzyme -> React Testing Library converter (src/src/index.ts). *)
(* A text is a sequence of one-character strings.  Regular expressions are *)
(* data (sequences of items) run by a backtracking matcher that follows    *)
(* the ECMAScript rules for greedy and lazy quantifiers, capture groups    *)
(* and optional groups.  String.prototype.replace is modelled with its     *)
(* substitution patterns.                                                  *)
(***************************************************************************)
EXTENDS Integers, Sequences, FiniteSets, TLC

\* ------------------------------------------------------------------ text
\* A string literal as a sequence of one-character strings.
S(literal) == [i \in 1..Len(literal) |-> SubSeq(literal, i, i)]

Lower == {"a","b","c","d","e","f","g","h","i","j","k","l","m",
          "n","o","p","q","r","s","t","u","v","w","x","y","z"}
Upper == {"A","B","C","D","E","F","G","H","I","J","K","L","M",
          "N","O","P","Q","R","S","T","U","V","W","X","Y","Z"}
Digit == {"0","1","2","3","4","5","6","7","8","9"}
\* \s and \w of the regular expressions
Space == {" ", "\n", "\t", "\r"}
Word  == Lower \cup Upper \cup Digit \cup {"_"}
\* [.#a-zA-Z0-9_-]
SelChar == Word \cup {".", "#", "-"}

LowerOf == [c \in Upper |->
   CASE c = "A" -> "a" [] c = "B" -> "b" [] c = "C" -> "c" [] c = "D" -> "d"
     [] c = "E" -> "e" [] c = "F" -> "f" [] c = "G" -> "g" [] c = "H" -> "h"
     [] c = "I" -> "i" [] c = "J" -> "j" [] c = "K" -> "k" [] c = "L" -> "l"
     [] c = "M" -> "m" [] c = "N" -> "n" [] c = "O" -> "o" [] c = "P" -> "p"
     [] c = "Q" -> "q" [] c = "R" -> "r" [] c = "S" -> "s" [] c = "T" -> "t"
     [] c = "U" -> "u" [] c = "V" -> "v" [] c = "W" -> "w" [] c = "X" -> "x"
     [] c = "Y" -> "y" [] c = "Z" -> "z"]

\* String.prototype.toLowerCase
ToLowerCase(t) == [i \in 1..Len(t) |-> IF t[i] \in Upper THEN LowerOf[t[i]] ELSE t[i]]

\* lit occurs in t starting at position i
OccursAt(t, lit, i) ==
   /\ i >= 1
   /\ i + Len(lit) - 1 <= Len(t)
   /\ \A j \in 1..Len(lit) : t[i + j - 1] = lit[j]

\* the least element of a non-empty set of numbers
Min(set) == CHOOSE x \in set : \A y \in set : x <= y

\* the greatest element of a non-empty set of numbers
Max(set) == CHOOSE x \in set : \A y \in set : x >= y

\* String.prototype.indexOf, 1-based; 0 when lit does not occur at or after from
IndexFrom(t, lit, from) ==
   LET hits == {i \in from..(Len(t) - Len(lit) + 1) : OccursAt(t, lit, i)}
   IN  IF hits = {} THEN 0 ELSE Min(hits)

IndexOf(t, lit) == IndexFrom(t, lit, 1)

\* String.prototype.includes
Includes(t, lit) == IndexOf(t, lit) # 0

\* String.prototype.startsWith
StartsWith(t, lit) == OccursAt(t, lit, 1)

\* number of non-overlapping occurrences of lit in t, scanning left to right
RECURSIVE CountFrom(_, _, _)
CountFrom(t, lit, from) ==
   LET i == IndexFrom(t, lit, from)
   IN  IF i = 0 THEN 0 ELSE 1 + CountFrom(t, lit, i + Len(lit))

Count(t, lit) == CountFrom(t, lit, 1)

\* GetSubstitution of String.prototype.replace for a replacement string:
\* $$ is $, $& the matched text, $' the text after it.  ($ followed by a
\* grave accent is the text before it; no text of this model holds a grave
\* accent.)  A search value without capture groups leaves $1..$9 and $< as
\* they are.  The replacement is read left to right from position k; the next
\* pattern starts at the first $ that one of these characters follows.
RECURSIVE GetSubstitution(_, _, _, _)
GetSubstitution(rep, k, matched, after) ==
   LET starts == {p \in k..(Len(rep) - 1) : rep[p] = "$" /\ rep[p + 1] \in {"$", "&", "'"}}
   IN  IF starts = {} THEN SubSeq(rep, k, Len(rep))
       ELSE LET p == Min(starts)
            IN  SubSeq(rep, k, p - 1)
                \o (CASE rep[p + 1] = "$" -> <<"$">>
                      [] rep[p + 1] = "&" -> matched
                      [] rep[p + 1] = "'" -> after)
                \o GetSubstitution(rep, p + 2, matched, after)

\* t.replace(lit, rep) with a string search value: the first occurrence only
ReplaceFirst(t, lit, rep) ==
   LET i == IndexOf(t, lit)
   IN  IF i = 0 THEN t
       ELSE SubSeq(t, 1, i - 1)
            \o GetSubstitution(rep, 1, lit, SubSeq(t, i + Len(lit), Len(t)))
            \o SubSeq(t, i + Len(lit), Len(t))

\* t.replace(/lit/g, rep) for a regular expression that matches lit literally:
\* every non-overlapping occurrence, left to right, against the original text
RECURSIVE ReplaceAllFrom(_, _, _, _)
ReplaceAllFrom(t, lit, rep, from) ==
   LET i == IndexFrom(t, lit, from)
   IN  IF i = 0 THEN SubSeq(t, from, Len(t))
       ELSE SubSeq(t, from, i - 1)
            \o GetSubstitution(rep, 1, lit, SubSeq(t, i + Len(lit), Len(t)))
            \o ReplaceAllFrom(t, lit, rep, i + Len(lit))

ReplaceAll(t, lit, rep) == ReplaceAllFrom(t, lit, rep, 1)

\* String.prototype.split('\n'): the lines of t, line k lying between the
\* (k-1)-th and the k-th line feed
SplitLines(t) ==
   LET feeds   == {i \in 1..Len(t) : t[i] = "\n"}
       feed(k) == IF k = 0 THEN 0
                  ELSE IF k > Cardinality(feeds) THEN Len(t) + 1
                  ELSE CHOOSE i \in feeds : Cardinality({j \in feeds : j <= i}) = k
   IN  [k \in 1..(Cardinality(feeds) + 1) |-> SubSeq(t, feed(k - 1) + 1, feed(k) - 1)]

\* ------------------------------------------------------ regular expressions
\* A regular expression is a sequence of items:
\*   "lit" a run of literal characters (str)
\*   "c"   one character class with a quantifier (set, negated, min, many,
\*         lazy); g > 0 makes the item capture group g
\*   "("   start of capture group g        ")"   end of capture group g
\*   "?("  start of an optional (greedy) non-capturing group of skip-2 items
\*   ")?"  end of that group
\* An item with ws set stands for \s* followed by the item.  It is used only
\* where the item cannot begin with a white-space character, so that \s* can
\* match in one way only: all the white space there is.
Item(kind, ws, set, neg, min, many, lazy, g, skip, str) ==
   [k |-> kind, ws |-> ws, set |-> set, neg |-> neg, min |-> min, many |-> many,
    lazy |-> lazy, g |-> g, skip |-> skip, str |-> str]

Lit(s)              == <<Item("lit", FALSE, {}, FALSE, 0, FALSE, FALSE, 0, 0, S(s))>>
WsLit(s)            == <<Item("lit", TRUE, {}, FALSE, 0, FALSE, FALSE, 0, 0, S(s))>>
One(set)            == <<Item("c", FALSE, set, FALSE, 1, FALSE, FALSE, 0, 0, <<>>)>>
WsOne(set)          == <<Item("c", TRUE, set, FALSE, 1, FALSE, FALSE, 0, 0, <<>>)>>
WsMaybe(set)        == <<Item("c", TRUE, set, FALSE, 0, FALSE, FALSE, 0, 0, <<>>)>>
Star(set)           == <<Item("c", FALSE, set, FALSE, 0, TRUE, FALSE, 0, 0, <<>>)>>
Plus(g, set)        == <<Item("c", FALSE, set, FALSE, 1, TRUE, FALSE, g, 0, <<>>)>>
WsPlus(g, set)      == <<Item("c", TRUE, set, FALSE, 1, TRUE, FALSE, g, 0, <<>>)>>
NotStar(set)        == <<Item("c", FALSE, set, TRUE, 0, TRUE, FALSE, 0, 0, <<>>)>>
NotPlus(g, set)     == <<Item("c", FALSE, set, TRUE, 1, TRUE, FALSE, g, 0, <<>>)>>
NotPlusLazy(g, set) == <<Item("c", FALSE, set, TRUE, 1, TRUE, TRUE, g, 0, <<>>)>>
Group(g, re)  == <<Item("(", FALSE, {}, FALSE, 0, FALSE, FALSE, g, 0, <<>>)>> \o re
                 \o <<Item(")", FALSE, {}, FALSE, 0, FALSE, FALSE, g, 0, <<>>)>>
Optional(re)  == <<Item("?(", FALSE, {}, FALSE, 0, FALSE, FALSE, 0, Len(re) + 2, <<>>)>> \o re
                 \o <<Item(")?", FALSE, {}, FALSE, 0, FALSE, FALSE, 0, 0, <<>>)>>
\* \s* on its own, where what follows may begin with white space
Ws == Star(Space)

NGroups(re) == Cardinality({re[i].g : i \in 1..Len(re)} \ {0})

\* the character at pos belongs to the class (set, neg)
InClass(t, pos, set, neg) == pos <= Len(t) /\ ((t[pos] \in set) # neg)

\* the first position from pos on that holds no character of the class
RunEnd(t, pos, set, neg) == Min({j \in pos..(Len(t) + 1) : ~InClass(t, j, set, neg)})

\* the most characters item it can consume at pos
RunLen(t, pos, it) ==
   IF ~InClass(t, pos, it.set, it.neg) THEN 0
   ELSE IF ~it.many THEN 1
   ELSE RunEnd(t, pos, it.set, it.neg) - pos

NoMatch == [ok |-> FALSE, end |-> 0, caps |-> <<>>]

\* the captures once item it has matched the text from p to q
Capture(caps, it, p, q) == IF it.g = 0 THEN caps ELSE [caps EXCEPT ![it.g] = <<p, q>>]

\* An item that can match in one way only: a literal, exactly one character
\* of a class, a group mark.
Fixed(it) == it.k \in {"lit", "(", ")", ")?"} \/ (it.k = "c" /\ it.min = 1 /\ ~it.many)

\* the first item from k on that is not fixed (Len(re) + 1 if there is none)
FixedEnd(re, k) == Min({j \in k..(Len(re) + 1) : IF j > Len(re) THEN TRUE ELSE ~Fixed(re[j])})

\* One fixed item matched at m.pos: the position and the captures after it.
FixedStep(it, t, m) ==
   LET p == IF it.ws THEN RunEnd(t, m.pos, Space, FALSE) ELSE m.pos
   IN  IF it.k = "lit"
       THEN IF OccursAt(t, it.str, p) THEN [ok |-> TRUE, pos |-> p + Len(it.str), caps |-> m.caps]
            ELSE [ok |-> FALSE, pos |-> 0, caps |-> m.caps]
       ELSE IF it.k = "c"
       THEN IF InClass(t, p, it.set, it.neg)
            THEN [ok |-> TRUE, pos |-> p + 1, caps |-> Capture(m.caps, it, p, p + 1)]
            ELSE [ok |-> FALSE, pos |-> 0, caps |-> m.caps]
       ELSE IF it.k = "("
       THEN [m EXCEPT !.caps = [m.caps EXCEPT ![it.g] = <<m.pos, m.pos>>]]
       ELSE IF it.k = ")"
       THEN [m EXCEPT !.caps = [m.caps EXCEPT ![it.g] = <<m.caps[it.g][1], m.pos>>]]
       ELSE m

\* The fixed items a..b-1 matched one after the other from m on; the run is
\* halved so that a long run does not nest as deep as it is long.
RECURSIVE FixedRun(_, _, _, _, _)
FixedRun(re, a, b, t, m) ==
   IF ~m.ok \/ a >= b THEN m
   ELSE IF b = a + 1 THEN FixedStep(re[a], t, m)
   ELSE FixedRun(re, (a + b) \div 2, b, t, FixedRun(re, a, (a + b) \div 2, t, m))

\* Backtracking match of items k.. of re at pos.  The fixed items up to the
\* next choice are matched first.  A quantified class may consume min..run
\* characters; a greedy quantifier prefers the longest run, a lazy one the
\* shortest, and the preferred count that lets the rest of the expression
\* match wins.  An optional group is tried with the group first, then without.
RECURSIVE MatchFrom(_, _, _, _, _)
MatchFrom(re, k, t, pos, caps) ==
   LET j  == FixedEnd(re, k)
       m  == FixedRun(re, k, j, t, [ok |-> TRUE, pos |-> pos, caps |-> caps])
       it == re[j]
   IN  IF ~m.ok THEN NoMatch
       ELSE IF j > Len(re) THEN [ok |-> TRUE, end |-> m.pos, caps |-> m.caps]
       ELSE IF it.k = "c"
       THEN LET p    == IF it.ws THEN RunEnd(t, m.pos, Space, FALSE) ELSE m.pos
                run  == RunLen(t, p, it)
                rest == {<<n, MatchFrom(re, j + 1, t, p + n, Capture(m.caps, it, p, p + n))>> :
                           n \in it.min..run}
                good == {r \in rest : r[2].ok}
            IN  IF good = {} THEN NoMatch
                ELSE IF it.lazy
                THEN (CHOOSE r \in good : \A q \in good : r[1] <= q[1])[2]
                ELSE (CHOOSE r \in good : \A q \in good : r[1] >= q[1])[2]
       ELSE LET r == MatchFrom(re, j + 1, t, m.pos, m.caps)
            IN  IF r.ok THEN r ELSE MatchFrom(re, j + it.skip, t, m.pos, m.caps)

\* One match as String.prototype.matchAll yields it: m[0] and the groups,
\* a group that took no part in the match being undefined.
MatchArray(t, from, r, n) ==
   [text   |-> SubSeq(t, from, r.end - 1),
    index  |-> from,
    groups |-> [g \in 1..n |->
                 IF r.caps[g][1] = 0 THEN [def |-> FALSE, text |-> <<>>]
                 ELSE [def |-> TRUE, text |-> SubSeq(t, r.caps[g][1], r.caps[g][2] - 1)]]]

\* [...t.matchAll(re)] for a global expression: the non-overlapping matches,
\* left to right, the search resuming where the last match ended.  at[i] is
\* the match attempt at position i.
RECURSIVE MatchAllFrom(_, _, _, _)
MatchAllFrom(re, t, at, from) ==
   LET hits == {i \in from..Len(t) : at[i].ok}
   IN  IF hits = {} THEN <<>>
       ELSE LET i == Min(hits)
            IN  <<MatchArray(t, i, at[i], NGroups(re))>>
                \o MatchAllFrom(re, t, at, IF at[i].end > i THEN at[i].end ELSE i + 1)

MatchAll(re, t) ==
   MatchAllFrom(re, t,
      [i \in 1..Len(t) |-> MatchFrom(re, 1, t, i, [g \in 1..NGroups(re) |-> <<0, 0>>])], 1)

\* Array.prototype.reverse
Reverse(s) == [i \in 1..Len(s) |-> s[Len(s) + 1 - i]]

\* ------------------------------------------------------ the default rules
\* The regular expression of each rule, named by its position in the table.
RE_shallow ==
   Lit("shallow") \o WsLit("(") \o WsLit("<") \o NotPlus(0, {">"})
   \o NotStar({"/"}) \o WsLit(")")

RE_mount ==
   Lit("mount") \o WsLit("(") \o WsLit("<") \o NotPlusLazy(1, {">"})
   \o WsMaybe({"/"}) \o WsLit(">") \o WsLit(")")

RE_findExists ==
   Lit("expect") \o WsLit("(") \o WsPlus(1, Word) \o WsLit(".") \o WsLit("find")
   \o WsLit("(") \o WsOne({"'", "\""}) \o Plus(2, SelChar) \o One({"'", "\""})
   \o WsLit(")") \o WsLit(".") \o WsLit("exists") \o WsLit("(") \o WsLit(")")
   \o WsLit(")") \o WsLit(".") \o WsLit("toBe") \o WsLit("(") \o NotPlus(0, {")"})
   \o WsLit(")")

RE_find ==
   Lit(".find") \o WsLit("(") \o WsOne({"'", "\""})
   \o Plus(1, SelChar) \o One({"'", "\""}) \o WsLit(")")

RE_text == Lit(".text") \o WsLit("(") \o WsLit(")")

RE_html == Lit(".html") \o WsLit("(") \o WsLit(")")

RE_simulate ==
   Lit(".simulate") \o WsLit("(") \o WsOne({"'", "\""})
   \o NotPlus(1, {"'", "\""}) \o One({"'", "\""})
   \o Optional(WsLit(",") \o Ws \o NotPlus(2, {")"}))
   \o WsLit(")")

RE_setProps ==
   Lit(".setProps") \o WsLit("(") \o Ws
   \o Group(1, Lit("{") \o NotPlus(0, {"}"}) \o Lit("}")) \o WsLit(")")

RE_state ==
   Lit(".state") \o WsLit("(") \o WsOne({"'", "\""})
   \o NotPlus(1, {"'", "\""}) \o One({"'", "\""}) \o WsLit(")")

RE_instance == Lit(".instance") \o WsLit("(") \o WsLit(")")

RE_textToBe ==
   Lit("expect") \o WsLit("(") \o Ws \o NotPlus(1, {"."}) \o WsLit(".")
   \o WsLit("text") \o WsLit("(") \o WsLit(")") \o WsLit(")")
   \o WsLit(".") \o WsLit("toBe") \o WsLit("(") \o Ws \o NotPlus(2, {")"})
   \o WsLit(")")

\* A rewrite function returns a text or throws.
Returns(text) == [threw |-> FALSE, text |-> text]
Throws        == [threw |-> TRUE, text |-> <<>>]

\* /^(button|input|select|textarea|form)$/i.test(selector)
IsRoleTag(selector) ==
   ToLowerCase(selector) \in {S("button"), S("input"), S("select"), S("textarea"), S("form")}

\* /^[a-zA-Z][a-zA-Z0-9]*$/.test(selector) && !selector.includes('.') && !selector.startsWith('#')
IsBareIdentifier(selector) ==
   /\ Len(selector) >= 1
   /\ selector[1] \in Lower \cup Upper
   /\ \A i \in 2..Len(selector) : selector[i] \in Lower \cup Upper \cup Digit
   /\ ~Includes(selector, S("."))
   /\ ~StartsWith(selector, S("#"))

\* selector.replace(/^\./, '')
StripLeadingDot(selector) ==
   IF StartsWith(selector, S(".")) THEN SubSeq(selector, 2, Len(selector)) ELSE selector

\* The rewrite functions; args[1] is the matched text (args[0] of the code),
\* args[k + 1] the k-th capture group that is not undefined.
Rtl_shallow(args) ==
   Returns(S("render(") \o ReplaceFirst(args[1], S("shallow"), <<>>) \o S(")"))

\* Rtl_mount as it would be if only the tag name were kept
Rtl_mountTagOnly(args) ==
   Returns(S("render(<")
           \o SubSeq(args[2], 1, Min({i \in 1..(Len(args[2]) + 1) :
                                        IF i > Len(args[2]) THEN TRUE ELSE args[2][i] \in Space}) - 1)
           \o S(" />)"))

Rtl_mount(args) == Returns(S("render(<") \o args[2] \o S(" />)"))

Rtl_findExists(args) ==
   Returns(S(" expect(screen.queryByTestId('") \o StripLeadingDot(args[3])
           \o S("')).not.toBeInTheDocument()"))

Rtl_find(args) ==
   LET selector == args[2]
   IN  IF IsRoleTag(selector)
       THEN Returns(S(" screen.getByRole('") \o ToLowerCase(selector) \o S("')"))
       ELSE IF IsBareIdentifier(selector)
       THEN Returns(S(" screen.getByText(/^") \o selector \o S("$/)"))
       ELSE Returns(S(" screen.getByTestId('") \o selector \o S("')"))

Rtl_text(args) == Returns(S("textContent"))

Rtl_html(args) == Returns(S("innerHTML"))

Rtl_simulate(args) ==
   LET event   == args[2]
       hasData == Len(args) >= 3 /\ args[3] # <<>>
   IN  IF event = S("click")
       THEN IF hasData
            THEN Returns(S("userEvent.click(screen.getByRole('button'), ") \o args[3] \o S(")"))
            ELSE Returns(S("userEvent.click(screen.getByRole('button'))"))
       ELSE Returns(S("fireEvent.") \o event \o S("(screen.getByRole('button')")
                    \o (IF hasData THEN S(", ") \o args[3] ELSE <<>>) \o S(")"))

Rtl_setProps(args) ==
   Returns(S("// Note: RTL doesn't have setProps. Re-render component with new props.\n// ")
           \o args[2])

Rtl_state(args) ==
   Returns(S("// state() is not directly mappable in RTL.\n// Consider using a custom render with state inspection."))

Rtl_instance(args) ==
   Returns(S("// instance() is not available in RTL.\n// Consider testing through user-facing behavior."))

Rtl_textToBe(args) ==
   LET expected == args[3]
   IN  Returns(S("expect(screen.getByText(") \o expected \o S(")).toHaveTextContent(")
               \o expected \o S(")"))

Rule(source, flags, rtl, description) ==
   [enzyme |-> [source |-> source, flags |-> flags], rtl |-> rtl, description |-> description]

\* The table as it would be with the plain .find() rule ahead of the compound one
PatternsFindFirst == <<
   Rule("shallow",    "g", "shallow",    "shallow() -> render()"),
   Rule("mount",      "g", "mount",      "mount() -> render()"),
   Rule("find",       "g", "find",       ".find() -> RTL queries"),
   Rule("findExists", "g", "findExists", ".find().exists().toBe() -> queryByTestId (before .find())"),
   Rule("text",       "g", "text",       ".text() -> textContent"),
   Rule("html",       "g", "html",       ".html() -> innerHTML"),
   Rule("simulate",   "g", "simulate",   ".simulate() -> fireEvent/userEvent"),
   Rule("setProps",   "g", "setProps",   ".setProps() -> re-render pattern"),
   Rule("state",      "g", "state",      ".state() -> custom state inspection"),
   Rule("instance",   "g", "instance",   ".instance() -> behavior testing"),
   Rule("textToBe",   "g", "textToBe",   ".text().toBe() -> getByText + toHaveTextContent") >>

\* The default table, in table order (the arrow of the descriptions is written ->).
ENZYME_TO_RTL_PATTERNS == <<
   Rule("shallow",    "g", "shallow",    "shallow() -> render()"),
   Rule("mount",      "g", "mount",      "mount() -> render()"),
   Rule("findExists", "g", "findExists", ".find().exists().toBe() -> queryByTestId (before .find())"),
   Rule("find",       "g", "find",       ".find() -> RTL queries"),
   Rule("text",       "g", "text",       ".text() -> textContent"),
   Rule("html",       "g", "html",       ".html() -> innerHTML"),
   Rule("simulate",   "g", "simulate",   ".simulate() -> fireEvent/userEvent"),
   Rule("setProps",   "g", "setProps",   ".setProps() -> re-render pattern"),
   Rule("state",      "g", "state",      ".state() -> custom state inspection"),
   Rule("instance",   "g", "instance",   ".instance() -> behavior testing"),
   Rule("textToBe",   "g", "textToBe",   ".text().toBe() -> getByText + toHaveTextContent") >>

\* Known Enzyme imports to convert
ENZYME_IMPORTS == <<
   [enzyme |-> "import { shallow } from 'enzyme'",
    rtl |-> "// RTL: import { render, screen, fireEvent, userEvent } from \"@testing-library/react\""],
   [enzyme |-> "import { mount } from 'enzyme'",
    rtl |-> "// RTL: import { render, screen, fireEvent, userEvent } from \"@testing-library/react\""],
   [enzyme |-> "import { configure } from 'enzyme'",
    rtl |-> "// RTL: import { render } from \"@testing-library/react\""],
   [enzyme |-> "import Adapter from '@wojtekmaj/enzyme-adapter-react-17'",
    rtl |-> "// RTL: No adapter needed - @testing-library/react handles React 18+"],
   [enzyme |-> "import Adapter from 'enzyme-adapter-react-16'",
    rtl |-> "// RTL: No adapter needed - @testing-library/react handles React 18+"] >>

\* ------------------------------------------------------ rules a caller adds
\* The rule of the test suite: { enzyme: /custom/g, rtl: () => 'custom-rtl' }.
RE_custom == Lit("custom")

Rtl_custom(args) == Returns(S("custom-rtl"))

CustomRule == Rule("custom", "g", "custom", "Custom pattern")

\* A caller's rule whose rewrite function fails on one of its matches:
\* { enzyme: /legacy\w/g, rtl: m => { if (m === 'legacyX') throw ...; return 'modern' } }
RE_legacy == Lit("legacy") \o One(Word)

Rtl_legacy(args) == IF args[1] = S("legacyX") THEN Throws ELSE Returns(S("modern"))

LegacyRule == Rule("legacy", "g", "legacy", "Legacy pattern")

\* new RegExp(source, 'g'): the expression a rule's source stands for
RegexOf(source) ==
   CASE source = "shallow"    -> RE_shallow
     [] source = "mount"      -> RE_mount
     [] source = "findExists" -> RE_findExists
     [] source = "find"       -> RE_find
     [] source = "text"       -> RE_text
     [] source = "html"       -> RE_html
     [] source = "simulate"   -> RE_simulate
     [] source = "setProps"   -> RE_setProps
     [] source = "state"      -> RE_state
     [] source = "instance"   -> RE_instance
     [] source = "textToBe"   -> RE_textToBe
     [] source = "custom"     -> RE_custom
     [] source = "legacy"     -> RE_legacy

\* (pattern.rtl)(...args)
CallRtl(rtl, args) ==
   CASE rtl = "shallow"    -> Rtl_shallow(args)
     [] rtl = "mount"      -> Rtl_mount(args)
     [] rtl = "findExists" -> Rtl_findExists(args)
     [] rtl = "find"       -> Rtl_find(args)
     [] rtl = "text"       -> Rtl_text(args)
     [] rtl = "html"       -> Rtl_html(args)
     [] rtl = "simulate"   -> Rtl_simulate(args)
     [] rtl = "setProps"   -> Rtl_setProps(args)
     [] rtl = "state"      -> Rtl_state(args)
     [] rtl = "instance"   -> Rtl_instance(args)
     [] rtl = "textToBe"   -> Rtl_textToBe(args)
     [] rtl = "custom"     -> Rtl_custom(args)
     [] rtl = "legacy"     -> Rtl_legacy(args)

\* ------------------------------------------------------------- convert
\* findLineNumber: the 1-based number of the first line that contains search,
\* 1 when no line does
RECURSIVE FirstLineWith(_, _, _)
FirstLineWith(lines, search, i) ==
   IF i > Len(lines) THEN 1
   ELSE IF Includes(lines[i], search) THEN i
   ELSE FirstLineWith(lines, search, i + 1)

FindLineNumber(code, search) == FirstLineWith(SplitLines(code), search, 1)

Marker == S("Auto-generated by enzyme-on-rtl")

FullHeader ==
   S("import { render, screen, fireEvent, userEvent } from '@testing-library/react'\nimport { cleanup } from '@testing-library/react'\n\n// Auto-generated by enzyme-on-rtl\n// Run cleanup after each test:\nafterEach(() => cleanup())")

MinimalHeader ==
   S("import { render } from '@testing-library/react'\n\n// Auto-generated by enzyme-on-rtl")

\* The import pass: the loop over this.imports, from import k on.
RECURSIVE ImportPass(_, _, _)
ImportPass(imports, k, st) ==
   IF k > Len(imports) THEN st
   ELSE LET imp    == imports[k]
            enzyme == S(imp.enzyme)
        IN  IF Includes(st.result, enzyme)
            THEN ImportPass(imports, k + 1,
                   [st EXCEPT
                      !.changes  = Append(@, [type |-> "import", original |-> enzyme,
                                              replacement |-> S(imp.rtl),
                                              line |-> FindLineNumber(st.result, enzyme)]),
                      !.result   = ReplaceAll(st.result, enzyme, S(imp.rtl)),
                      !.warnings = Append(@, "Converted import: " \o imp.enzyme),
                      !.hasShallowOrMount =
                          @ \/ Includes(enzyme, S("shallow")) \/ Includes(enzyme, S("mount")),
                      !.hasConfigure = @ \/ Includes(enzyme, S("configure"))])
            ELSE ImportPass(imports, k + 1, st)

\* RtlImport as it would be if the kind of import did not matter
RtlImportMinimal(st) == MinimalHeader

\* The header the import pass asks for
RtlImport(st) ==
   IF st.hasShallowOrMount THEN FullHeader
   ELSE IF st.hasConfigure THEN MinimalHeader
   ELSE MinimalHeader

\* AlreadyInjected as it would be without the marker check
NeverInjected(result) == FALSE

\* result.includes('Auto-generated by enzyme-on-rtl')
AlreadyInjected(result) == Includes(result, Marker)

\* The header injection as it would be without the changes.length test
HeaderInjectionAlways(st) ==
   IF ~AlreadyInjected(st.result)
   THEN [st EXCEPT !.result = RtlImport(st) \o S("\n\n") \o st.result]
   ELSE st

\* Add RTL imports at the top if Enzyme imports were converted
HeaderInjection(st) ==
   IF Len(st.changes) > 0 /\ ~AlreadyInjected(st.result)
   THEN [st EXCEPT !.result = RtlImport(st) \o S("\n\n") \o st.result]
   ELSE st

\* match.slice(1).filter(g => g !== undefined), with match[0] in front
ArgsOf(m) ==
   <<m.text>> \o [i \in 1..Len(SelectSeq(m.groups, LAMBDA g : g.def)) |->
                    SelectSeq(m.groups, LAMBDA g : g.def)[i].text]

\* The loop over allMatches.reverse(), from match k on: the working state
\* when the loop ends, and whether a rewrite function threw and ended it.
RECURSIVE ApplyMatches(_, _, _, _)
ApplyMatches(pattern, matches, k, st) ==
   IF k > Len(matches) THEN [threw |-> FALSE, st |-> st]
   ELSE LET m == matches[k]
            r == CallRtl(pattern.rtl, ArgsOf(m))
        IN  IF r.threw THEN [threw |-> TRUE, st |-> st]
            ELSE IF r.text # m.text
            THEN ApplyMatches(pattern, matches, k + 1,
                   [st EXCEPT
                      !.changes  = Append(@, [type |-> "conversion", original |-> m.text,
                                              replacement |-> r.text,
                                              line |-> FindLineNumber(st.result, m.text)]),
                      !.result   = ReplaceFirst(st.result, m.text, r.text),
                      !.warnings = Append(@, "Applied pattern: " \o pattern.description)])
            ELSE ApplyMatches(pattern, matches, k + 1, st)

\* The try block as it would be without the reverse(): leftmost match first
ApplyPatternForward(pattern, st) ==
   ApplyMatches(pattern, MatchAll(RegexOf(pattern.enzyme.source), st.result), 1, st)

\* The try block of one rule: all matches against the working text,
\* processed rightmost first
ApplyPattern(pattern, st) ==
   ApplyMatches(pattern, Reverse(MatchAll(RegexOf(pattern.enzyme.source), st.result)), 1, st)

\* The catch clause of one rule: console.warn, and on to the next rule
Caught(pattern, st) ==
   [st EXCEPT !.console = Append(@, "Skipping pattern: " \o pattern.description)]

\* The pattern pass as it would be with the try around the whole loop: a
\* rewrite function that throws ends the pass.
RECURSIVE PatternPassAbort(_, _, _)
PatternPassAbort(patterns, k, st) ==
   IF k > Len(patterns) THEN st
   ELSE LET r == ApplyPattern(patterns[k], st)
        IN  IF r.threw THEN Caught(patterns[k], r.st)
            ELSE PatternPassAbort(patterns, k + 1, r.st)

\* Apply pattern conversions in order, from rule k on
RECURSIVE PatternPass(_, _, _)
PatternPass(patterns, k, st) ==
   IF k > Len(patterns) THEN st
   ELSE LET r == ApplyPattern(patterns[k], st)
        IN  IF r.threw THEN PatternPass(patterns, k + 1, Caught(patterns[k], r.st))
            ELSE PatternPass(patterns, k + 1, r.st)

\* convert(code) of a converter whose lists are imports and patterns
Convert(imports, patterns, code) ==
   PatternPass(patterns, 1,
      HeaderInjection(
         ImportPass(imports, 1,
            [result |-> code, changes |-> <<>>, warnings |-> <<>>, console |-> <<>>,
             hasShallowOrMount |-> FALSE, hasConfigure |-> FALSE])))

\* ----------------------------------------------------------- the program
\* Bounds of the model
MaxConverters == 2
MaxAdded      == 2
MaxSelLen     == 2

VARIABLES
   heap,        \* the arrays of rules: heap[0] is the module's ENZYME_TO_RTL_PATTERNS,
                \* the others are the arrays the converters' patterns fields refer to
   converters,  \* the converters made so far: [patterns |-> the array this.patterns refers to]
   added,       \* history: the rules given to addPattern since construction or the last reset
   dropped,     \* history: the added rules resetPatterns has dropped, per converter
   last         \* the convert call that has returned and whose result the caller holds

vars == <<heap, converters, added, dropped, last>>

NoCall ==
   [call |-> "none", conv |-> 0, input |-> <<>>, code |-> <<>>, warnings |-> <<>>,
    changes |-> <<>>, console |-> <<>>, again |-> FALSE, first |-> <<>>]

\* the rules a caller may add
CallerRules == {CustomRule, LegacyRule}

\* ENZYME_TO_RTL_PATTERNS.map(p => ({ enzyme: new RegExp(p.enzyme.source, p.enzyme.flags),
\*                                    rtl: p.rtl, description: p.description }))
ClonePatterns(table) ==
   [k \in 1..Len(table) |->
      Rule(table[k].enzyme.source, table[k].enzyme.flags, table[k].rtl, table[k].description)]

\* The array a fresh array expression yields: one no live object refers to.
FreshArray(others) == Min((1..(MaxConverters + 1)) \ others)

\* The assignment as it would be without the clone:
\* this.patterns = ENZYME_TO_RTL_PATTERNS
AliasPatterns(h, others) == [id |-> 0, list |-> h[0]]

\* this.patterns = ENZYME_TO_RTL_PATTERNS.map(...): the array the field refers
\* to afterwards and what it holds; others are the arrays of the other converters.
AssignPatterns(h, others) == [id |-> FreshArray(others), list |-> ClonePatterns(h[0])]

\* the heap once converter field values refs are all that is alive
Collect(h, refs) == [id \in (refs \cup {0}) |-> h[id]]

Refs(convs) == {convs[j].patterns : j \in 1..Len(convs)}

\* the addPattern calls made so far
TotalAdded ==
   Cardinality({<<i, k>> \in (1..Len(added)) \X (1..MaxAdded) :
                  k <= Len(added[i]) + Len(dropped[i])})

Init ==
   /\ heap = [id \in {0} |-> ENZYME_TO_RTL_PATTERNS]
   /\ converters = <<>>
   /\ added = <<>>
   /\ dropped = <<>>
   /\ last = NoCall

\* createConverter(): new EnzymeToRTLConverter()
CreateConverter ==
   /\ last.call = "none"
   /\ Len(converters) < MaxConverters
   /\ LET a == AssignPatterns(heap, Refs(converters))
      IN  /\ heap' = [id \in (DOMAIN heap \cup {a.id}) |-> IF id = a.id THEN a.list ELSE heap[id]]
          /\ converters' = Append(converters, [patterns |-> a.id])
   /\ added' = Append(added, <<>>)
   /\ dropped' = Append(dropped, <<>>)
   /\ UNCHANGED last

\* this.patterns.push(pattern)
Push(h, id, pattern) == [h EXCEPT ![id] = Append(@, pattern)]

\* converter i .addPattern(pattern)
AddPattern(i, pattern) ==
   /\ last.call = "none"
   /\ i \in 1..Len(converters)
   /\ TotalAdded < MaxAdded
   /\ heap' = Push(heap, converters[i].patterns, pattern)
   /\ added' = [added EXCEPT ![i] = Append(@, pattern)]
   /\ UNCHANGED <<converters, dropped, last>>

\* converter i .resetPatterns()
ResetPatterns(i) ==
   /\ last.call = "none"
   /\ i \in 1..Len(converters)
   /\ LET a    == AssignPatterns(heap, Refs(converters) \ {converters[i].patterns})
          cs   == [converters EXCEPT ![i] = [patterns |-> a.id]]
      IN  /\ heap' = Collect([id \in (DOMAIN heap \cup {a.id}) |->
                                IF id = a.id THEN a.list ELSE heap[id]], Refs(cs))
          /\ converters' = cs
   /\ added' = [added EXCEPT ![i] = <<>>]
   /\ dropped' = [dropped EXCEPT ![i] = @ \o added[i]]
   /\ UNCHANGED last

\* the result of converter i .convert(code), as the caller holds it
CallOf(i, code, again, first) ==
   LET r == Convert(ENZYME_IMPORTS, heap[converters[i].patterns], code)
   IN  [call |-> "convert", conv |-> i, input |-> code, code |-> r.result,
        warnings |-> r.warnings, changes |-> r.changes, console |-> r.console,
        again |-> again, first |-> first]

\* the texts given to converters that hold added rules
CallerTexts ==
   { S("custom test"),
     S("legacyA legacyX custom"),
     S("legacyX legacyA w.text() custom"),
     S("legacyA custom legacyB"),
     S("const a = 1"),
     S("custom custom"),
     S("a.text() b.text()"),
     S("shallow(<A>) x) / shallow(<A>)"),
     <<>> }

\* converter i .convert(code)
ConvertCall(i, code) ==
   /\ last.call = "none"
   /\ i \in 1..Len(converters)
   /\ last' = CallOf(i, code, FALSE, <<>>)
   /\ UNCHANGED <<heap, converters, added, dropped>>

\* the caller drops the result
Return ==
   /\ last.call = "convert"
   /\ last' = NoCall
   /\ UNCHANGED <<heap, converters, added, dropped>>

Next ==
   \/ CreateConverter
   \/ \E i \in 1..MaxConverters, pattern \in CallerRules : AddPattern(i, pattern)
   \/ \E i \in 1..MaxConverters : ResetPatterns(i)
   \/ \E i \in 1..MaxConverters, code \in CallerTexts : ConvertCall(i, code)
   \/ Return

Spec == Init /\ [][Next]_vars

\* ------------------------------------------- one converter, default rules
\* The texts given to a converter with the default rules.
SelAlphabet == {".", "#", "b", "7", "-"}

NamedSelectors ==
   { S("button"), S("Button"), S("INPUT"), S("select"), S("textarea"), S("form"),
     S("Header"), S(".submit-button"), S(".button"), S("#main"), S("h1"), S("buttons") }

Selectors ==
   NamedSelectors \cup UNION {[1..n -> SelAlphabet] : n \in 1..MaxSelLen}

FindCall(sel) == S("wrapper.find('") \o sel \o S("')")

ExistsAssertion(sel, v) ==
   S("expect(wrapper.find('") \o sel \o S("').exists()).toBe(") \o v \o S(")")

ImportLine(k) == S(ENZYME_IMPORTS[k].enzyme)

ImportTexts ==
   {ImportLine(k) : k \in 1..Len(ENZYME_IMPORTS)}
   \cup {ImportLine(j) \o S("\n") \o ImportLine(k) : j, k \in 1..Len(ENZYME_IMPORTS)}
   \cup {S("// ") \o Marker \o S("\n") \o ImportLine(k) : k \in 1..Len(ENZYME_IMPORTS)}
   \cup {ImportLine(k) \o S("\nimport MyComponent from './MyComponent'\n\nconst wrapper = shallow(<MyComponent />)\n") :
           k \in 1..Len(ENZYME_IMPORTS)}

\* mount(<body closing): an element's text and the ways it is closed
MountBodies == {S("C"), S("MyComponent"), S("Tag a=\"1\""), S("Tag a=\"1\" b=\"2\"")}

MountClosings == {S(" />"), S("/>"), S("  />"), S(">"), S(" >")}

MountCall(body, closing) == S("mount(<") \o body \o closing \o S(")")

\* wrapper.simulate('event') and wrapper.simulate('event', data); data <<>> is no data
SimulateEvents == {S("click"), S("change"), S("keydown")}

SimulateData ==
   {<<>>, S("{ button: 0 }"), S("{ target: { value: 'test' } }"), S("{ target: { value: '$' } }")}

SimulateCall(event, data) ==
   S("wrapper.simulate('") \o event \o S("'")
   \o (IF data = <<>> THEN <<>> ELSE S(", ") \o data) \o S(")")

StatementTexts ==
   { S("expect(wrapper.text()).toBe('Click me')"),
     S("expect(wrapper.text()).toBe(true)"),
     S("wrapper.text()"),
     S("wrapper.html()"),
     S("shallow(<C />)"),
     S("const wrapper = shallow(<MyComponent />)"),
     S("const wrapper = shallow(<MyComponent onClick={onClick} />)"),
     S("const wrapper = mount(<MyComponent />)"),
     S("mount( <Tag /> )"),
     S("mount(<Tag>body</Tag>)"),
     S("wrapper.find('button').simulate('click')"),
     S("wrapper.find('input').simulate('change', { target: { value: 'test' } })"),
     S("wrapper.simulate(\"keydown\", { key: 'Enter' })"),
     S("wrapper.simulate('change', { target: { value: '$' } }) // end"),
     S("wrapper.setProps({ newValue: 'test' })"),
     S("wrapper.state('count')"),
     S("wrapper.instance().handleClick()"),
     S("a.text() b.text()"),
     S("x.find('a') y.find('a')"),
     S("expect(onClick).toHaveBeenCalled()"),
     S("const a = 1"),
     <<>> }

DefaultTexts ==
   {FindCall(sel) : sel \in Selectors}
   \cup {ExistsAssertion(sel, v) : sel \in NamedSelectors, v \in {S("true"), S("false")}}
   \cup ImportTexts
   \cup {MountCall(body, closing) : body \in MountBodies, closing \in MountClosings}
   \cup {SimulateCall(event, data) : event \in SimulateEvents, data \in SimulateData}
   \cup StatementTexts

\* the state after const converter = createConverter()
InitDefault ==
   /\ heap = [id \in {0, 1} |->
                IF id = 0 THEN ENZYME_TO_RTL_PATTERNS ELSE ClonePatterns(ENZYME_TO_RTL_PATTERNS)]
   /\ converters = <<[patterns |-> 1]>>
   /\ added = << <<>> >>
   /\ dropped = << <<>> >>
   /\ last = NoCall

\* converter.convert(converter.convert(t).code): the output converted again
ConvertAgain ==
   /\ last.call = "convert"
   /\ ~last.again
   /\ last' = CallOf(last.conv, last.code, TRUE, last.input)
   /\ UNCHANGED <<heap, converters, added, dropped>>

NextDefault ==
   \/ \E code \in DefaultTexts : ConvertCall(1, code)
   \/ ConvertAgain
   \/ Return

SpecDefault == InitDefault /\ [][NextDefault]_vars

\* ------------------------------------------------------------ the claims
\* C1: in every reachable state, the pattern list of each converter is the
\* default table, in table order, followed by exactly the rules given to its
\* addPattern since its construction or its last resetPatterns, in insertion
\* order, and the module's default table is as it was written.  So a rule
\* added to one converter is in no other list, a convert call leaves the
\* lists alone, and a convert of a converter that holds no custom rule (it
\* never got one, or resetPatterns has dropped it) applies no custom rule.
C1_PatternLists ==
   /\ heap[0] = ENZYME_TO_RTL_PATTERNS
   /\ \A i \in 1..Len(converters) :
         heap[converters[i].patterns] = ENZYME_TO_RTL_PATTERNS \o added[i]
   /\ last.call = "convert" =>
         \/ \E k \in 1..Len(added[last.conv]) : added[last.conv][k] = CustomRule
         \/ ~Includes(last.code, S("custom-rtl"))

\* Two converters: the first was given the custom rule and then reset, the
\* second holds an added rule, and a convert of the first leaves 'custom' alone.
C1_Witness ==
   /\ Len(converters) = 2
   /\ dropped[1] = <<CustomRule>>
   /\ added[1] = <<>>
   /\ added[2] # <<>>
   /\ last.call = "convert"
   /\ last.conv = 1
   /\ last.input = S("custom test")
   /\ last.code = S("custom test")

\* C2: convert rewrites X.find('s') to the form the shape of s chooses:
\* getByRole('<s lower-cased>') for button, input, select, textarea, form in
\* any case, else getByText(/^s$/) for a bare alphanumeric identifier, else
\* getByTestId('<s without its leading dot>').
C2_FindForms ==
   \A sel \in Selectors :
      (last.call = "convert" /\ last.input = FindCall(sel)) =>
         Includes(last.code,
            IF ToLowerCase(sel) \in {S("button"), S("input"), S("select"), S("textarea"), S("form")}
            THEN S("screen.getByRole('") \o ToLowerCase(sel) \o S("')")
            ELSE IF /\ sel[1] \in Lower \cup Upper
                    /\ \A i \in 1..Len(sel) : sel[i] \in Lower \cup Upper \cup Digit
            THEN S("screen.getByText(/^") \o sel \o S("$/)")
            ELSE S("screen.getByTestId('")
                 \o (IF sel[1] = "." THEN Tail(sel) ELSE sel) \o S("')"))

\* C3: convert turns expect(X.text()).toBe(v) into
\* expect(screen.getByText(v)).toHaveTextContent(v): the compound rule takes
\* effect on the assertion, the plain .text() rule does not consume the
\* .text() call first.
C3_TextAssertion ==
   \A v \in {S("'Click me'"), S("true")} :
      (last.call = "convert"
       /\ last.input = S("expect(wrapper.text()).toBe(") \o v \o S(")")) =>
         last.code = S("expect(screen.getByText(") \o v \o S(")).toHaveTextContent(")
                     \o v \o S(")")

\* C4: convert of expect(X.find('sel').exists()).toBe(v) puts
\* expect(screen.queryByTestId('<sel without its leading dot>')).not.toBeInTheDocument(),
\* after one blank, in the place of the whole assertion; the plain .find()
\* rule records nothing for it: there is exactly one change, a conversion of
\* the whole assertion, and exactly one warning, which carries the
\* description of the compound rule.
C4_ExistsAssertion ==
   \A sel \in NamedSelectors, v \in {S("true"), S("false")} :
      (last.call = "convert" /\ last.input = ExistsAssertion(sel, v)) =>
         /\ last.code = S(" expect(screen.queryByTestId('")
                        \o (IF sel[1] = "." THEN Tail(sel) ELSE sel)
                        \o S("')).not.toBeInTheDocument()")
         /\ Len(last.changes) = 1
         /\ last.changes[1].type = "conversion"
         /\ last.changes[1].original = last.input
         /\ last.changes[1].replacement = last.code
         /\ last.warnings =
               <<"Applied pattern: .find().exists().toBe() -> queryByTestId (before .find())">>

\* convert("expect(wrapper.find('.button').exists()).toBe(true)") has returned
C4_Witness ==
   /\ last.call = "convert"
   /\ last.input = S("expect(wrapper.find('.button').exists()).toBe(true)")
   /\ last.code = S(" expect(screen.queryByTestId('button')).not.toBeInTheDocument()")
   /\ Len(last.changes) = 1

\* C5: convert turns shallow(<Expr ...>) into render(<Expr ...>): the name
\* shallow becomes render and nothing else changes, no parenthesis is added.
C5_ShallowToRender ==
   \A t \in {S("shallow(<C />)"), S("const wrapper = shallow(<MyComponent />)"),
             S("const wrapper = shallow(<MyComponent onClick={onClick} />)")} :
      (last.call = "convert" /\ last.input = t) =>
         last.code = ReplaceFirst(t, S("shallow"), S("render"))

\* C6 as stated: convert rewrites the self-closing mount(<Tag attrs />) to
\* render(<Tag />), keeping only the tag name, and leaves a mount call that is
\* not self-closing alone.
C6_MountDiscardsAttributes ==
   \A body \in MountBodies, closing \in MountClosings :
      (last.call = "convert" /\ last.input = MountCall(body, closing)) =>
         IF Len(closing) >= 2 /\ closing[Len(closing) - 1] = "/"
         THEN last.code =
                 S("render(<")
                 \o SubSeq(body, 1, Min({i \in 1..(Len(body) + 1) :
                                           IF i > Len(body) THEN TRUE ELSE body[i] = " "}) - 1)
                 \o S(" />)")
         ELSE last.code = last.input

\* C6 amended: convert rewrites mount(<E />) and mount(<E>) alike to
\* render(<E />), where E is the text of the element from its tag name to its
\* last attribute: the attributes are kept, and the closing need not be
\* self-closing.
C6_MountKeepsAttributes ==
   \A body \in MountBodies, closing \in MountClosings :
      (last.call = "convert" /\ last.input = MountCall(body, closing)) =>
         last.code = S("render(<") \o body \o S(" />)")

\* convert("mount(<Tag a=\"1\" />)") has returned with the attribute in place
C6_Witness ==
   /\ last.call = "convert"
   /\ last.input = S("mount(<Tag a=\"1\" />)")
   /\ last.code = S("render(<Tag a=\"1\" />)")
   /\ Len(last.changes) = 1

\* C7 as stated: whenever a shallow or mount import matched, the output holds
\* the render/screen/fireEvent/userEvent import line and the cleanup line;
\* whenever only other imports matched, it holds the minimal import line and
\* no cleanup line; when none matched, no header is prepended; and a single
\* shallow import line gives exactly one change, of kind import.
C7_HeaderAlways ==
   last.call = "convert" =>
      LET matched == {k \in 1..Len(ENZYME_IMPORTS) : Includes(last.input, ImportLine(k))}
          render  == {k \in matched : \/ Includes(ImportLine(k), S("shallow"))
                                      \/ Includes(ImportLine(k), S("mount"))}
      IN  /\ render # {} =>
                /\ Includes(last.code, S("import { render, screen, fireEvent, userEvent } from '@testing-library/react'"))
                /\ Includes(last.code, S("afterEach(() => cleanup())"))
          /\ (matched # {} /\ render = {}) =>
                /\ Includes(last.code, S("import { render } from '@testing-library/react'"))
                /\ ~Includes(last.code, S("cleanup"))
          /\ matched = {} => Count(last.code, Marker) = Count(last.input, Marker)
          /\ last.input = ImportLine(1) =>
                Len(last.changes) = 1 /\ last.changes[1].type = "import"

\* C7 amended: the same, unless the text already holds the marker
\* 'Auto-generated by enzyme-on-rtl': then no header is prepended, whatever
\* imports matched.  A prepended header is the first thing in the output.
C7_HeaderUnlessMarked ==
   last.call = "convert" =>
      LET matched == {k \in 1..Len(ENZYME_IMPORTS) : Includes(last.input, ImportLine(k))}
          render  == {k \in matched : \/ Includes(ImportLine(k), S("shallow"))
                                      \/ Includes(ImportLine(k), S("mount"))}
          marked  == Includes(last.input, Marker)
          library == S("from '@testing-library/react'")
      IN  /\ (render # {} /\ ~marked) =>
                /\ StartsWith(last.code, S("import { render, screen, fireEvent, userEvent } from '@testing-library/react'\n"))
                /\ Includes(last.code, S("afterEach(() => cleanup())"))
                /\ Count(last.code, Marker) = 1
          /\ (matched # {} /\ render = {} /\ ~marked) =>
                /\ StartsWith(last.code, S("import { render } from '@testing-library/react'\n"))
                /\ ~Includes(last.code, S("cleanup"))
                /\ Count(last.code, Marker) = 1
          /\ (matched = {} \/ marked) =>
                /\ Count(last.code, Marker) = Count(last.input, Marker)
                /\ Count(last.code, library) = Count(last.input, library)
          /\ last.input = ImportLine(1) =>
                Len(last.changes) = 1 /\ last.changes[1].type = "import"

\* convert("import { shallow } from 'enzyme'") has returned with the header
C7_Witness ==
   /\ last.call = "convert"
   /\ last.input = S("import { shallow } from 'enzyme'")
   /\ Includes(last.code, S("afterEach(() => cleanup())"))
   /\ Len(last.changes) = 1
   /\ last.changes[1].type = "import"

\* C8: when convert(t) has prepended the header, convert(convert(t).code)
\* prepends no second one: the marker occurs as often in the second output as
\* in the first.  And no convert prepends a header when the working text
\* after the import pass holds the marker: the marker and the header's
\* import line occur as often in the output as in that text.
C8_NoSecondHeader ==
   last.call = "convert" =>
      LET working == ImportPass(ENZYME_IMPORTS, 1,
                        [result |-> last.input, changes |-> <<>>, warnings |-> <<>>,
                         console |-> <<>>, hasShallowOrMount |-> FALSE,
                         hasConfigure |-> FALSE]).result
          library == S("from '@testing-library/react'")
      IN  /\ (last.again /\ Count(last.input, Marker) > Count(last.first, Marker)) =>
                Count(last.code, Marker) = Count(last.input, Marker)
          /\ Includes(working, Marker) =>
                /\ Count(last.code, Marker) = Count(working, Marker)
                /\ Count(last.code, library) = Count(working, library)

\* convert(convert("import { shallow } from 'enzyme'").code) has returned
C8_Witness ==
   /\ last.call = "convert"
   /\ last.again
   /\ last.first = S("import { shallow } from 'enzyme'")
   /\ Count(last.input, Marker) = 1
   /\ Count(last.code, Marker) = 1

\* C9: when the rewrite function of an added rule throws on a match (the
\* legacy rule on 'legacyX'; matches are processed rightmost first), convert
\* returns a result all the same: the throwing match stays, the matches of
\* the rule to its left are skipped, those to its right are converted and
\* kept, the .text() rule that came before has taken effect, the custom rule
\* is applied wherever it stands in the list, and changes and warnings hold
\* one entry per substitution made and none for the throwing match.
C9_ThrowingRuleSkipped ==
   (/\ last.call = "convert"
    /\ \E k \in 1..Len(added[last.conv]) : added[last.conv][k] = LegacyRule
    /\ Includes(last.input, S("legacyX"))) =>
      LET rules    == added[last.conv]
          legacies == {k \in 1..Len(rules) : rules[k] = LegacyRule}
          customs  == {k \in 1..Len(rules) : rules[k] = CustomRule}
          throwAt  == Max({i \in 1..Len(last.input) : OccursAt(last.input, S("legacyX"), i)})
          legacyAt == {i \in 1..Len(last.input) :
                         /\ OccursAt(last.input, S("legacy"), i)
                         /\ InClass(last.input, i + 6, Word, FALSE)}
          right    == {i \in legacyAt : i > throwAt}
          made     == Cardinality(right) + Count(last.input, S(".text()"))
                      + Cardinality(customs) * Count(last.input, S("custom"))
      IN  /\ Count(last.code, S("legacyX")) = Count(last.input, S("legacyX"))
          /\ Count(last.code, S("legacy")) = Cardinality(legacyAt) - Cardinality(right)
          /\ Count(last.code, S("modern")) = Cardinality(right)
          /\ Count(last.code, S(".text()")) = 0
          /\ Count(last.code, S("textContent")) = Count(last.input, S(".text()"))
          /\ customs # {} => Count(last.code, S("custom-rtl")) = Count(last.input, S("custom"))
          /\ customs = {} => Count(last.code, S("custom")) = Count(last.input, S("custom"))
          /\ Len(last.changes) = made
          /\ Len(last.warnings) = made
          /\ Cardinality({k \in 1..Len(last.warnings) :
                            last.warnings[k] = "Applied pattern: Legacy pattern"})
                = Cardinality(right)
          /\ last.console = [k \in 1..Cardinality(legacies) |-> "Skipping pattern: Legacy pattern"]

\* A converter holding the legacy rule and then the custom rule has converted
\* a text on whose first match the legacy rule throws.
C9_Witness ==
   /\ last.call = "convert"
   /\ added[last.conv] = <<LegacyRule, CustomRule>>
   /\ last.input = S("legacyX legacyA w.text() custom")
   /\ last.code = S("legacyX modern wtextContent custom-rtl")
   /\ last.console = <<"Skipping pattern: Legacy pattern">>

\* C10: convert turns .simulate('click'[, data]) into
\* userEvent.click(screen.getByRole('button')[, data]) and .simulate('evt'[, data])
\* for any other event into fireEvent.evt(screen.getByRole('button')[, data]),
\* the text of data being forwarded verbatim.
C10_SimulateForwardsData ==
   \A event \in SimulateEvents, data \in SimulateData :
      (last.call = "convert" /\ last.input = SimulateCall(event, data)) =>
         Includes(last.code,
            (IF event = S("click") THEN S("userEvent.click(")
             ELSE S("fireEvent.") \o event \o S("("))
            \o S("screen.getByRole('button')")
            \o (IF data = <<>> THEN <<>> ELSE S(", ") \o data) \o S(")"))

\* C11: when no import literal occurs in the input and no rule of the
\* converter's list matches it, convert returns the input as code, no change
\* and no warning; nothing is prepended.  The empty text is such an input.
C11_NothingRecognised ==
   (/\ last.call = "convert"
    /\ \A k \in 1..Len(ENZYME_IMPORTS) : ~Includes(last.input, S(ENZYME_IMPORTS[k].enzyme))
    /\ \A k \in 1..Len(heap[converters[last.conv].patterns]) :
          MatchAll(RegexOf(heap[converters[last.conv].patterns][k].enzyme.source),
                   last.input) = <<>>) =>
      /\ last.code = last.input
      /\ last.changes = <<>>
      /\ last.warnings = <<>>
      /\ last.console = <<>>

\* A converter that holds an added rule has converted a text none of its
\* rules matches.
C11_Witness ==
   /\ last.call = "convert"
   /\ added[last.conv] # <<>>
   /\ last.input = S("const a = 1")
   /\ last.code = S("const a = 1")
   /\ last.changes = <<>>
   /\ last.warnings = <<>>

\* The text after the recorded changes from..to have been made one after the
\* other, each as result.replace(original, replacement): the leftmost
\* occurrence of original at that moment, if there is one.
RECURSIVE Replay(_, _, _, _)
Replay(text, changes, from, to) ==
   IF from > to THEN text
   ELSE Replay(ReplaceFirst(text, changes[from].original, changes[from].replacement),
               changes, from + 1, to)

\* C12 as stated: every match event replaces exactly one occurrence of the
\* matched string, so each recorded conversion finds its original in the
\* working text of that moment; and when one rule alone matches the input
\* and all its k matches are the same string, the k occurrences are replaced
\* one per event: the code is the input with every occurrence replaced.
C12_OneOccurrencePerMatch ==
   last.call = "convert" =>
      LET list     == heap[converters[last.conv].patterns]
          working  == HeaderInjection(ImportPass(ENZYME_IMPORTS, 1,
                         [result |-> last.input, changes |-> <<>>, warnings |-> <<>>,
                          console |-> <<>>, hasShallowOrMount |-> FALSE,
                          hasConfigure |-> FALSE])).result
          imports  == Cardinality({j \in 1..Len(last.changes) : last.changes[j].type = "import"})
          matching == {k \in 1..Len(list) :
                         MatchAll(RegexOf(list[k].enzyme.source), working) # <<>>}
      IN  /\ \A j \in (imports + 1)..Len(last.changes) :
                Includes(Replay(working, last.changes, imports + 1, j - 1),
                         last.changes[j].original)
          /\ (/\ Cardinality(matching) = 1
              /\ last.changes # <<>>
              /\ \A j \in 1..Len(last.changes) :
                    last.changes[j].original = last.changes[1].original) =>
                last.code = ReplaceAll(working, last.changes[1].original,
                                       last.changes[1].replacement)

\* C12 amended: the matches of a rule are computed once and processed
\* rightmost first, so when one rule alone matches the text (and does not
\* throw), the originals of the changes are its matches in reverse textual
\* order, one change and one warning per match; and each event replaces the
\* leftmost occurrence of the matched string at that moment if there is one,
\* so the code is the working text with the recorded conversions replayed in
\* order as first-occurrence replacements.  An occurrence may be gone (an
\* earlier event took it) or lie inside an earlier replacement.
C12_LeftmostOccurrence ==
   last.call = "convert" =>
      LET list     == heap[converters[last.conv].patterns]
          working  == HeaderInjection(ImportPass(ENZYME_IMPORTS, 1,
                         [result |-> last.input, changes |-> <<>>, warnings |-> <<>>,
                          console |-> <<>>, hasShallowOrMount |-> FALSE,
                          hasConfigure |-> FALSE])).result
          imports  == Cardinality({j \in 1..Len(last.changes) : last.changes[j].type = "import"})
          matching == {k \in 1..Len(list) :
                         MatchAll(RegexOf(list[k].enzyme.source), working) # <<>>}
      IN  /\ Len(last.warnings) = Len(last.changes)
          /\ last.code = Replay(working, last.changes, imports + 1, Len(last.changes))
          /\ (Cardinality(matching) = 1 /\ last.console = <<>>) =>
                LET found == MatchAll(RegexOf(list[CHOOSE k \in matching : TRUE].enzyme.source),
                                      working)
                IN  /\ Len(last.changes) = imports + Len(found)
                    /\ \A j \in 1..Len(found) :
                          last.changes[imports + j].original = found[Len(found) + 1 - j].text

\* A converter with the custom rule has converted 'custom custom': two
\* changes, both made at the first occurrence.
C12_Witness ==
   /\ last.call = "convert"
   /\ added[last.conv] = <<CustomRule>>
   /\ last.input = S("custom custom")
   /\ last.code = S("custom-rtl-rtl custom")
   /\ Len(last.changes) = 2

====
